---- MODULE Spec2Model ----
(***************************************************************************)
(* Patient Management System API (src/fundamentals/main.py).               *)
(*                                                                         *)
(* The persisted collection is the JSON object of patients.json: a dict    *)
(* from patient id to the dumped record.  Python dicts and JSON objects    *)
(* keep insertion order, so the collection is a function (data) together   *)
(* with the order of its keys (keys).                                      *)
(*                                                                         *)
(* Numbers are fixed point: height in centimetres (1.5 m is 150), weight   *)
(* in kilograms, bmi in hundredths (18.5 is 1850).  On the grid of inputs  *)
(* used here weight / height^2 is either exact in binary floating point or *)
(* far from a rounding tie, so round(x, 2) is rounding to the nearest      *)
(* hundredth.                                                              *)
(*                                                                         *)
(* Spec     : the handlers run one at a time, each one atomically.         *)
(* SpecConc : the handlers run on thread-pool threads and interleave at    *)
(*            the file operations of load_data and save_data.              *)
(***************************************************************************)
EXTENDS Integers, Sequences, FiniteSets, TLC

VARIABLES
    data,       \* patients.json, parsed: id -> dumped record
    keys,       \* the order of the keys of data (dict / JSON object order)
    prev,       \* history: the collection before the last operation
    req,        \* the last request: its operation and its inputs
    resp,       \* the last response: status code, error, returned record or list
    hist,       \* history: id -> stored fields, from the successful responses alone
    file,       \* SpecConc: patients.json as the sequence of chunks on disk
    thr,        \* SpecConc: each thread's position and locals
    ghost       \* SpecConc: history of the saves

vars == <<data, keys, prev, req, resp, hist, file, thr, ghost>>
seqVars == <<data, keys, prev, req, resp, hist>>
concVars == <<file, thr, ghost>>

(***************************************************************************)
(* Bounds and input sets                                                   *)
(***************************************************************************)
Ids == {"P001", "P002"}
NameInputs == {"Ayush"}
CityInputs == {"Pune"}
\* Values a Patient accepts, and values that break one constraint each.
GoodAges == {30}
BadAges == {0, 150}
GoodGenders == {"male", "female"}
BadGenders == {"unknown"}
GoodHeights == {150, 200}
BadHeights == {0, 300}
GoodWeights == {60, 74, 120}
BadWeights == {0}
AgeInputs == GoodAges \cup BadAges
GenderInputs == GoodGenders \cup BadGenders
HeightInputs == GoodHeights \cup BadHeights
WeightInputs == GoodWeights \cup BadWeights
\* An id a patch body may try to supply.
BodyIdInputs == {"P999"}
\* The sets of keys a patch body gives.
PatchKeySets ==
    {{}, {"name"}, {"city"}, {"age"}, {"gender"}, {"height"}, {"weight"}, {"id"},
     {"height", "weight"}, {"age", "id"}}
SortByInputs == {"height", "bmi", "color"}
\* "<omitted>": the query has no order parameter.
OrderInputs == {"<omitted>", "asc", "aesc", "desc", "up"}

(***************************************************************************)
(* class Patient                                                           *)
(***************************************************************************)
PatientFields == {"id", "name", "city", "age", "gender", "height", "weight"}
Genders == {"male", "female", "others"}

\* A Patient whose upper bounds (lt=120, lt=3) were left out.
ValidPatient_noUpper(d) ==
    /\ d.none \cap PatientFields = {}
    /\ d.f.age > 0
    /\ d.f.gender \in Genders
    /\ d.f.height > 0
    /\ d.f.weight > 0

\* A keyword dict handed to Patient(...): f holds the values, none the keys
\* whose value is None.  Keys other than Patient's fields are ignored.
ValidPatient(d) ==
    /\ d.none \cap PatientFields = {}
    /\ d.f.age > 0 /\ d.f.age < 120
    /\ d.f.gender \in Genders
    /\ d.f.height > 0 /\ d.f.height < 300
    /\ d.f.weight > 0

\* The Patient object built from a valid dict.
Patient(d) ==
    [id |-> d.f.id, name |-> d.f.name, city |-> d.f.city, age |-> d.f.age,
     gender |-> d.f.gender, height |-> d.f.height, weight |-> d.f.weight]

\* n / m rounded to the nearest integer, ties to even (Python's round).
Round(n, m) ==
    LET q == n \div m
        r == n % m
    IN  IF 2 * r < m THEN q
        ELSE IF 2 * r > m THEN q + 1
        ELSE IF q % 2 = 0 THEN q ELSE q + 1

\* bmi, in hundredths, of a height in centimetres and a weight in kilograms.
bmi(p) == Round(p.weight * 1000000, p.height * p.height)

verdict(p) ==
    IF bmi(p) < 1850 THEN "Uderweight"
    ELSE IF bmi(p) < 2500 THEN "Normal"
    ELSE IF bmi(p) < 3000 THEN "Normal"
    ELSE "Obese"

\* patient.model_dump(exclude='id'): the fields but id, and the computed fields.
model_dump(p) ==
    [name |-> p.name, city |-> p.city, age |-> p.age, gender |-> p.gender,
     height |-> p.height, weight |-> p.weight,
     bmi |-> bmi(p), verdict |-> verdict(p)]

(***************************************************************************)
(* class PatientUpdate                                                     *)
(***************************************************************************)
UpdateFields == {"name", "city", "age", "gender", "height", "weight"}

\* A JSON body: set holds the keys given, none those given as null, f the values.
\* Every field is Optional: null passes; a value must meet the field's constraint.
ValidPatientUpdate(b) ==
    LET given == (b.set \cap UpdateFields) \ b.none
    IN  /\ "age" \in given => b.f.age > 0
        /\ "gender" \in given => b.f.gender \in Genders
        /\ "height" \in given => b.f.height > 0
        /\ "weight" \in given => b.f.weight > 0

\* The PatientUpdate object: keys that are not its fields are ignored.
PatientUpdate(b) ==
    [set |-> b.set \cap UpdateFields, none |-> b.none \cap UpdateFields,
     f |-> [k \in UpdateFields |-> b.f[k]]]

\* model_dump without exclude_unset: every field, None where it was not given.
model_dump_all(u) ==
    [set |-> UpdateFields, none |-> u.none \cup (UpdateFields \ u.set), f |-> u.f]

\* patient_update.model_dump(exclude_unset=True): the fields given, None included.
model_dump_exclude_unset(u) == [set |-> u.set, none |-> u.none, f |-> u.f]

(***************************************************************************)
(* dict operations and the persistence gateway                             *)
(***************************************************************************)
StoredKeys == UpdateFields \cup {"bmi", "verdict"}

\* c[id] = rec
DictSet(c, id, rec) ==
    [data |-> [k \in DOMAIN c.data \cup {id} |-> IF k = id THEN rec ELSE c.data[k]],
     keys |-> IF id \in DOMAIN c.data THEN c.keys ELSE Append(c.keys, id)]

\* A delete that was forgotten.
DictDel_none(c, id) == c

\* del c[id]
DictDel(c, id) ==
    [data |-> [k \in DOMAIN c.data \ {id} |-> c.data[k]],
     keys |-> SelectSeq(c.keys, LAMBDA k : k # id)]

\* data.values(), in dict order
Values(c) == [i \in 1..Len(c.keys) |-> c.data[c.keys[i]]]

load_data == [data |-> data, keys |-> keys]

save_data(c) == data' = c.data /\ keys' = c.keys

NoSave == UNCHANGED <<data, keys>>

(***************************************************************************)
(* Requests and responses                                                  *)
(***************************************************************************)
NoPatch == [set |-> {}, none |-> {},
            f |-> [id |-> "", name |-> "", city |-> "", age |-> 0,
                   gender |-> "", height |-> 0, weight |-> 0]]
NoPatient == [none |-> {}, f |-> NoPatch.f]

Request(op, id, patient, patch, sort_by, order) ==
    [op |-> op, id |-> id, patient |-> patient, patch |-> patch,
     sort_by |-> sort_by, order |-> order]

Response(code, err, body) == [code |-> code, err |-> err, body |-> body]

\* The stored fields of a dumped record.
Stored(rec) == [k \in UpdateFields |-> rec[k]]

\* What a step leaves behind: the request, the collection it found, the response.
Record(r, out) ==
    /\ req' = r
    /\ prev' = load_data
    /\ resp' = out
    /\ UNCHANGED concVars

(***************************************************************************)
(* The handlers                                                            *)
(***************************************************************************)
\* GET /view
view ==
    /\ Record(Request("view", "", NoPatient, NoPatch, "", ""),
              Response(200, "", Values(load_data)))
    /\ NoSave
    /\ UNCHANGED hist

\* GET /patient/{patient_id}
view_patient(patient_id) ==
    LET c == load_data
        r == Request("get", patient_id, NoPatient, NoPatch, "", "")
    IN  /\ IF patient_id \in DOMAIN c.data
              THEN Record(r, Response(200, "", <<c.data[patient_id]>>))
              ELSE Record(r, Response(404, "RecordNotFound", <<>>))
        /\ NoSave
        /\ UNCHANGED hist

\* The sorted list with x put in: after the elements that do not come after it.
Insert(s, x, key, reverse) ==
    LET before(y) == IF reverse THEN y[key] >= x[key] ELSE y[key] <= x[key]
        n == Cardinality({i \in 1..Len(s) : before(s[i])})
    IN  SubSeq(s, 1, n) \o <<x>> \o SubSeq(s, n + 1, Len(s))

\* sorted(values, key=lambda x: x.get(key, 0), reverse=reverse): a stable sort.
RECURSIVE sorted(_, _, _)
sorted(values, key, reverse) ==
    IF values = <<>> THEN <<>>
    ELSE Insert(sorted(SubSeq(values, 1, Len(values) - 1), key, reverse),
                values[Len(values)], key, reverse)

valid_fields == {"height", "weight", "bmi"}
valid_orders == {"aesc", "desc"}

\* GET /sort?sort_by=..&order=..   (order defaults to 'asc')
sort_patients(sort_by, order_given) ==
    LET order == IF order_given = "<omitted>" THEN "asc" ELSE order_given
        r == Request("sort", "", NoPatient, NoPatch, sort_by, order_given)
        sort_order == (order = "desc")
    IN  /\ IF sort_by \notin valid_fields
              THEN Record(r, Response(400, "InvalidArgument", <<>>))
           ELSE IF order \notin valid_orders
              THEN Record(r, Response(400, "InvalidArgument", <<>>))
           ELSE Record(r, Response(200, "", sorted(Values(load_data), sort_by, sort_order)))
        /\ NoSave
        /\ UNCHANGED hist

\* A check that never finds the id.
IsPresent_never(c, id) == FALSE

\* id in data
IsPresent(c, id) == id \in DOMAIN c.data

\* POST /create
create_patient(body) ==
    LET r == Request("create", body.f.id, body, NoPatch, "", "")
    IN  IF ~ValidPatient(body)
           THEN /\ Record(r, Response(422, "ValidationError", <<>>))
                /\ NoSave
                /\ UNCHANGED hist
        ELSE LET patient == Patient(body)
                 c == load_data
             IN  IF IsPresent(c, patient.id)
                    THEN /\ Record(r, Response(400, "DuplicateId", <<>>))
                         /\ NoSave
                         /\ UNCHANGED hist
                    ELSE /\ save_data(DictSet(c, patient.id, model_dump(patient)))
                         /\ Record(r, Response(201, "", <<>>))
                         /\ hist' = [k \in DOMAIN hist \cup {patient.id} |->
                                       IF k = patient.id
                                          THEN [f \in UpdateFields |-> body.f[f]]
                                          ELSE hist[k]]

\* for key, value in updated_patient.items(): cur_patient[key] = value
\* and then cur_patient['id'] = patient_id
Merge(cur, updated_patient, patient_id) ==
    [none |-> updated_patient.none,
     f |-> [k \in StoredKeys \cup {"id"} |->
              IF k = "id" THEN patient_id
              ELSE IF k \in updated_patient.set THEN updated_patient.f[k]
              ELSE cur[k]]]

\* A store of the merged dict as it is, without building the Patient anew.
Rebuild_asIs(cur_patient) == [k \in StoredKeys |-> cur_patient.f[k]]

\* new_patient = Patient(**cur_patient); new_patient.model_dump(exclude='id')
Rebuild(cur_patient) == model_dump(Patient(cur_patient))

\* A mistaken store: a fresh dict holding the one entry is saved.
Store_fresh(c, patient_id, cur_patient) ==
    [data |-> [k \in {patient_id} |-> cur_patient], keys |-> <<patient_id>>]

\* data[patient_id] = cur_patient
Store(c, patient_id, cur_patient) == DictSet(c, patient_id, cur_patient)

\* PUT /edit/{patient_id}
upadte_patient(patient_id, body) ==
    LET r == Request("edit", patient_id, NoPatient, body, "", "")
    IN  IF ~ValidPatientUpdate(body)
           THEN /\ Record(r, Response(422, "ValidationError", <<>>))
                /\ NoSave
                /\ UNCHANGED hist
        ELSE LET patient_update == PatientUpdate(body)
                 c == load_data
             IN  IF ~IsPresent(c, patient_id)
                    THEN /\ Record(r, Response(404, "RecordNotFound", <<>>))
                         /\ NoSave
                         /\ UNCHANGED hist
                    ELSE LET updated_patient == model_dump_exclude_unset(patient_update)
                             cur_patient == Merge(c.data[patient_id], updated_patient, patient_id)
                         IN  IF ~ValidPatient(cur_patient)
                                THEN /\ Record(r, Response(500, "ValidationError", <<>>))
                                     /\ NoSave
                                     /\ UNCHANGED hist
                                ELSE /\ save_data(Store(c, patient_id, Rebuild(cur_patient)))
                                     /\ Record(r, Response(200, "", <<>>))
                                     /\ hist' = [hist EXCEPT ![patient_id] =
                                                   [f \in UpdateFields |->
                                                      IF f \in body.set THEN body.f[f] ELSE @[f]]]

\* DELETE /delete/{patient_id}
delete_patient(patient_id) ==
    LET r == Request("delete", patient_id, NoPatient, NoPatch, "", "")
        c == load_data
    IN  IF ~IsPresent(c, patient_id)
           THEN /\ Record(r, Response(404, "RecordNotFound", <<>>))
                /\ NoSave
                /\ UNCHANGED hist
           ELSE /\ save_data(DictDel(c, patient_id))
                /\ Record(r, Response(200, "", <<>>))
                /\ hist' = [k \in DOMAIN hist \ {patient_id} |-> hist[k]]

(***************************************************************************)
(* The request bodies                                                      *)
(***************************************************************************)
\* The bodies of POST /create: the records a Patient accepts, and one record
\* per id with one field broken.
GoodPatients ==
    [id : Ids, name : NameInputs, city : CityInputs, age : GoodAges,
     gender : GoodGenders, height : GoodHeights, weight : GoodWeights]

BasePatients ==
    [id : Ids, name : NameInputs, city : CityInputs, age : GoodAges,
     gender : {"male"}, height : {200}, weight : {74}]

FaultyPatients ==
    UNION { {[g EXCEPT !.age = x] : x \in BadAges}
            \cup {[g EXCEPT !.gender = x] : x \in BadGenders}
            \cup {[g EXCEPT !.height = x] : x \in BadHeights}
            \cup {[g EXCEPT !.weight = x] : x \in BadWeights} : g \in BasePatients }

PatientInputs == { [none |-> {}, f |-> f] : f \in GoodPatients \cup FaultyPatients }

\* The values of a body that gives the keys S with a value.
ValuesOn(S) ==
    [id : IF "id" \in S THEN BodyIdInputs ELSE {NoPatch.f.id},
     name : IF "name" \in S THEN NameInputs ELSE {NoPatch.f.name},
     city : IF "city" \in S THEN CityInputs ELSE {NoPatch.f.city},
     age : IF "age" \in S THEN AgeInputs ELSE {NoPatch.f.age},
     gender : IF "gender" \in S THEN GenderInputs ELSE {NoPatch.f.gender},
     height : IF "height" \in S THEN HeightInputs ELSE {NoPatch.f.height},
     weight : IF "weight" \in S THEN WeightInputs ELSE {NoPatch.f.weight}]

PatchesOn(S) ==
    UNION { { [set |-> S, none |-> N, f |-> f] : f \in ValuesOn(S \ N) } :
            N \in SUBSET (S \cap UpdateFields) }

PatchInputs == UNION { PatchesOn(S) : S \in PatchKeySets }

(***************************************************************************)
(* SpecConc: the handlers on thread-pool threads.                          *)
(*                                                                         *)
(* FastAPI runs a handler declared with def on a thread of its pool, so    *)
(* handlers interleave at the file operations.  patients.json is the       *)
(* sequence of chunks json.dump has written that have reached the disk:    *)
(* one chunk per entry (the entry's id stands for it) and the closing "}". *)
(* The records themselves play no part here and are left out, and the      *)
(* requests are about one id.                                              *)
(***************************************************************************)
\* The threads of the pool that serve requests.
NumThreads == 2
Threads == 1..NumThreads

ConcOps == {"view", "create", "edit", "delete"}
ConcIds == {"P001"}

\* json.dump(data, f): the chunks of the collection with the keys ks.
Dump(ks) == ks \o <<"}">>

\* A write of chunk at offset pos; a write past the end leaves a hole.
WriteAt(f, pos, chunk) ==
    LET n == IF Len(f) > pos + 1 THEN Len(f) ELSE pos + 1
    IN  [i \in 1..n |-> IF i = pos + 1 THEN chunk
                        ELSE IF i <= Len(f) THEN f[i] ELSE "NUL"]

RECURSIVE WriteAll(_, _, _)
WriteAll(f, pos, chunks) ==
    IF chunks = <<>> THEN f
    ELSE WriteAll(WriteAt(f, pos, Head(chunks)), pos + 1, Tail(chunks))

\* The keys of a JSON object in the order they first appear.
RECURSIVE Dedup(_)
Dedup(ks) ==
    IF ks = <<>> THEN <<>>
    ELSE LET front == Dedup(SubSeq(ks, 1, Len(ks) - 1))
             x == ks[Len(ks)]
         IN  IF \E i \in 1..Len(front) : front[i] = x THEN front ELSE Append(front, x)

\* json.load(f): the collection, or a JSONDecodeError (ok is FALSE) when the text
\* is empty, cut short, holed, or goes on after the closing "}".
load_file(f) ==
    LET ok == /\ Len(f) >= 1
              /\ f[Len(f)] = "}"
              /\ \A i \in 1..Len(f) - 1 : f[i] \in Ids
    IN  [ok |-> ok, data |-> IF ok THEN Dedup(SubSeq(f, 1, Len(f) - 1)) ELSE <<>>]

\* open(..., 'r+'): the text is kept.
open_keep(f) == f

\* open('patients.json', 'w'): the file is truncated.
open_w(f) == <<>>

Idle == [pc |-> "idle", op |-> "", id |-> "", data |-> <<>>, out |-> <<>>, pos |-> 0,
         obs |-> [ok |-> TRUE, data |-> <<>>]]

Has(ks, id) == \E i \in 1..Len(ks) : ks[i] = id

ConcStep(t, next) ==
    /\ thr' = [thr EXCEPT ![t] = next]
    /\ UNCHANGED seqVars

\* A request arrives and is given to a free thread.
Begin(t, op, id) ==
    /\ thr[t].pc = "idle"
    /\ ConcStep(t, [Idle EXCEPT !.pc = "load", !.op = op, !.id = id])
    /\ ghost' = [ghost EXCEPT !.overlap = @ \/ \E u \in Threads \ {t} : thr[u].pc # "idle"]
    /\ UNCHANGED file

\* data = load_data()
Load(t) ==
    /\ thr[t].pc = "load"
    /\ ConcStep(t, [thr[t] EXCEPT !.pc = "loaded", !.obs = load_file(file)])
    /\ UNCHANGED <<file, ghost>>

\* The handler's work between load_data and save_data, or its return.
Handle(t) ==
    /\ thr[t].pc = "loaded"
    /\ LET me == thr[t]
           ks == me.obs.data
       IN  IF ~me.obs.ok \/ me.op = "view"
              THEN ConcStep(t, [me EXCEPT !.pc = "idle"])
           ELSE IF me.op = "create"
              THEN IF Has(ks, me.id)
                      THEN ConcStep(t, [me EXCEPT !.pc = "idle"])
                      ELSE ConcStep(t, [me EXCEPT !.pc = "open", !.data = Append(ks, me.id)])
           ELSE IF ~Has(ks, me.id)
              THEN ConcStep(t, [me EXCEPT !.pc = "idle"])
           ELSE IF me.op = "edit"
              THEN ConcStep(t, [me EXCEPT !.pc = "open", !.data = ks])
           ELSE ConcStep(t, [me EXCEPT !.pc = "open",
                                       !.data = SelectSeq(ks, LAMBDA k : k # me.id)])
    /\ UNCHANGED <<file, ghost>>

\* save_data: with open('patients.json', 'w') as f
Open(t) ==
    /\ thr[t].pc = "open"
    /\ file' = open_w(file)
    /\ ConcStep(t, [thr[t] EXCEPT !.pc = "write", !.out = Dump(thr[t].data), !.pos = 0])
    /\ ghost' = [ghost EXCEPT !.saved = @ \cup {thr[t].data}]

\* save_data: json.dump fills the buffer and the buffer is flushed: a chunk
\* reaches the disk while later ones are still to come.
Flush(t) ==
    /\ thr[t].pc = "write"
    /\ Len(thr[t].out) > 1
    /\ file' = WriteAt(file, thr[t].pos, Head(thr[t].out))
    /\ ConcStep(t, [thr[t] EXCEPT !.out = Tail(@), !.pos = @ + 1])
    /\ UNCHANGED ghost

\* save_data: the with block ends, the rest is flushed and the file closed.
Close(t) ==
    /\ thr[t].pc = "write"
    /\ file' = WriteAll(file, thr[t].pos, thr[t].out)
    /\ ConcStep(t, [thr[t] EXCEPT !.pc = "idle", !.out = <<>>])
    /\ ghost' = [ghost EXCEPT !.last = thr[t].data]

ConcInit ==
    /\ file = Dump(<<>>)
    /\ thr = [t \in Threads |-> Idle]
    /\ ghost = [saved |-> {<<>>}, last |-> <<>>, overlap |-> FALSE]

NextConc ==
    \/ \E t \in Threads, op \in ConcOps, id \in ConcIds : Begin(t, op, id)
    \/ \E t \in Threads : Load(t)
    \/ \E t \in Threads : Handle(t)
    \/ \E t \in Threads : Open(t)
    \/ \E t \in Threads : Flush(t)
    \/ \E t \in Threads : Close(t)

(***************************************************************************)
(* Spec: one handler at a time                                             *)
(***************************************************************************)
EmptyCollection == [data |-> [k \in {} |-> 0], keys |-> <<>>]

Init ==
    /\ data = EmptyCollection.data
    /\ keys = EmptyCollection.keys
    /\ prev = EmptyCollection
    /\ req = Request("", "", NoPatient, NoPatch, "", "")
    /\ resp = Response(0, "", <<>>)
    /\ hist = [k \in {} |-> 0]
    /\ ConcInit

Next ==
    \/ view
    \/ \E id \in Ids : view_patient(id)
    \/ \E s \in SortByInputs, o \in OrderInputs : sort_patients(s, o)
    \/ \E b \in PatientInputs : create_patient(b)
    \/ \E id \in Ids, b \in PatchInputs : upadte_patient(id, b)
    \/ \E id \in Ids : delete_patient(id)

Spec == Init /\ [][Next]_vars

SpecConc == Init /\ [][NextConc]_vars

(***************************************************************************)
(* The claims' vocabulary, from the specification's words                  *)
(***************************************************************************)
Abs(x) == IF x < 0 THEN 0 - x ELSE x

\* b hundredths is weight / height^2 (kg, cm) rounded to two places.
IsRoundedBmi(b, height, weight) ==
    2 * Abs(b * height * height - weight * 1000000) <= height * height

\* The band of the threshold table: below 18.5, from 18.5 to below 30, from 30.
Band(b) == IF b < 1850 THEN "low" ELSE IF b < 3000 THEN "middle" ELSE "high"

\* The Record Schema's constraints on the stored fields f, none of them null.
RecordSchemaOK(f, none) ==
    /\ none \cap UpdateFields = {}
    /\ 0 < f.age /\ f.age < 120
    /\ 0 < f.height /\ f.height < 300
    /\ f.weight > 0
    /\ f.gender \in {"male", "female", "others"}

\* The stored fields of rec overlaid with the fields a patch body gives.
Overlaid(rec, body) ==
    [k \in UpdateFields |-> IF k \in body.set THEN body.f[k] ELSE rec[k]]

Unchanged == data = prev.data /\ keys = prev.keys

IsEdit == req.op = "edit"
EditOfExisting == IsEdit /\ req.id \in DOMAIN prev.data

C2_InvalidMergeRejected ==
    /\ (EditOfExisting
          /\ ~RecordSchemaOK(Overlaid(prev.data[req.id], req.patch), req.patch.none))
       => (resp.err = "ValidationError" /\ Unchanged)
    /\ \A id \in DOMAIN data : RecordSchemaOK(data[id], {})

\* A patch of age alone to 150 on an existing record was refused.
C2_Witness ==
    /\ EditOfExisting
    /\ req.patch.set = {"age"} /\ req.patch.none = {} /\ req.patch.f.age = 150
    /\ resp.err = "ValidationError"
    /\ Unchanged

(***************************************************************************)
(* C3  sort accepts asc and desc                                           *)
(***************************************************************************)
Ordered(s, key, desc) ==
    \A i \in 1..Len(s) - 1 :
        IF desc THEN s[i][key] >= s[i + 1][key] ELSE s[i][key] <= s[i + 1][key]

SameRecords(s, c) ==
    /\ Len(s) = Len(c.keys)
    /\ \A id \in DOMAIN c.data :
         Cardinality({i \in 1..Len(s) : s[i] = c.data[id]})
           = Cardinality({k \in DOMAIN c.data : c.data[k] = c.data[id]})

\* C3: for a valid field, sort with order asc (the default when order is omitted)
\* returns the records in ascending key order, with order desc in descending key
\* order, and any other order fails with InvalidArgument.
C3_SortOrders ==
    (req.op = "sort" /\ req.sort_by \in {"height", "weight", "bmi"}) =>
        LET order == IF req.order = "<omitted>" THEN "asc" ELSE req.order
        IN  IF order \in {"asc", "desc"}
               THEN /\ resp.code = 200
                    /\ SameRecords(resp.body, prev)
                    /\ Ordered(resp.body, req.sort_by, order = "desc")
               ELSE resp.err = "InvalidArgument"

(***************************************************************************)
(* C4  The verdict table                                                   *)
(***************************************************************************)
\* C4: the verdict of a record is "Underweight" for bmi < 18.5, "Normal" for
\* 18.5 <= bmi < 30 and "Obese" for bmi >= 30, and nothing else.
C4_VerdictTable ==
    \A id \in DOMAIN data :
        data[id].verdict =
            IF data[id].bmi < 1850 THEN "Underweight"
            ELSE IF data[id].bmi < 3000 THEN "Normal"
            ELSE "Obese"

(***************************************************************************)
(* C5  The Partial-Update Schema's constraints                             *)
(***************************************************************************)
\* A field the body gives a value that breaks the Record Schema's constraint on it.
BreaksFieldConstraint(body) ==
    LET given == (body.set \cap UpdateFields) \ body.none
    IN  \/ "age" \in given /\ ~(0 < body.f.age /\ body.f.age < 120)
        \/ "height" \in given /\ ~(0 < body.f.height /\ body.f.height < 300)
        \/ "weight" \in given /\ ~(body.f.weight > 0)
        \/ "gender" \in given /\ body.f.gender \notin {"male", "female", "others"}

\* C5: a patch with a present field that breaks the Record Schema's constraint on
\* that field is rejected with ValidationError when the patch is validated (the
\* request is refused, 422), whatever the existing record.
C5_PatchSchemaSameConstraints ==
    (IsEdit /\ BreaksFieldConstraint(req.patch))
        => (resp.err = "ValidationError" /\ resp.code = 422)

(***************************************************************************)
(* C6  The empty patch                                                     *)
(***************************************************************************)
\* C6: the empty patch of an existing record succeeds and leaves the record, and
\* the collection, as it was.
C6_EmptyPatchIdentity ==
    (EditOfExisting /\ req.patch.set = {})
        => (resp.code = 200 /\ data[req.id] = prev.data[req.id] /\ Unchanged)

\* The empty patch was applied to one of two records.
C6_Witness ==
    /\ EditOfExisting /\ req.patch.set = {}
    /\ resp.code = 200
    /\ Cardinality(DOMAIN data) = 2

(***************************************************************************)
(* C7  create never overwrites                                             *)
(***************************************************************************)
IsDuplicateCreate == req.op = "create" /\ req.id \in DOMAIN prev.data

\* C7 as stated: create with an id that exists fails with DuplicateId and leaves
\* the collection unchanged.
C7_DuplicateFailsWithDuplicateId ==
    IsDuplicateCreate => (resp.err = "DuplicateId" /\ Unchanged)

\* C7 as amended: create with an id that exists fails, with DuplicateId when the
\* record given meets the Record Schema and with ValidationError when it does
\* not, and in both cases leaves the collection unchanged.
C7_DuplicateNeverOverwrites ==
    IsDuplicateCreate =>
        /\ resp.err = IF RecordSchemaOK(req.patient.f, req.patient.none)
                         THEN "DuplicateId" ELSE "ValidationError"
        /\ Unchanged

\* A valid record with another weight was offered under an existing id and refused.
C7_Witness ==
    /\ IsDuplicateCreate
    /\ resp.err = "DuplicateId"
    /\ req.patient.f.weight # prev.data[req.id].weight
    /\ Unchanged

(***************************************************************************)
(* C8  A patch never changes identity                                      *)
(***************************************************************************)
\* C8: after a successful patch of id X the collection has the ids it had, in the
\* order it had them, the merged record is stored under X and every other record
\* is as it was, also when the body gives an id.
C8_PatchKeepsIdentity ==
    (IsEdit /\ resp.code = 200) =>
        /\ DOMAIN data = DOMAIN prev.data
        /\ keys = prev.keys
        /\ req.id \in DOMAIN data
        /\ Stored(data[req.id]) = Overlaid(prev.data[req.id], req.patch)
        /\ \A k \in DOMAIN data \ {req.id} : data[k] = prev.data[k]

\* A body that gives an id and a new age was applied to one of two records.
C8_Witness ==
    /\ IsEdit /\ resp.code = 200
    /\ "id" \in req.patch.set /\ req.patch.f.id \notin DOMAIN data
    /\ "age" \in req.patch.set
    /\ Cardinality(DOMAIN data) = 2

(***************************************************************************)
(* C10  get after create, patch and delete                                 *)
(***************************************************************************)
\* C10: get(id) fails with RecordNotFound exactly when id has no live create (never
\* created, or deleted since), and otherwise returns the stored fields given at
\* create as modified by the successful patches since, with the bmi and verdict
\* derived from them.
C10_GetFollowsHistory ==
    req.op = "get" =>
        /\ (resp.err = "RecordNotFound") <=> (req.id \notin DOMAIN hist)
        /\ req.id \in DOMAIN hist =>
             /\ resp.code = 200
             /\ Len(resp.body) = 1
             /\ Stored(resp.body[1]) = hist[req.id]
             /\ IsRoundedBmi(resp.body[1].bmi, hist[req.id].height, hist[req.id].weight)
             /\ resp.body[1].verdict = verdict(hist[req.id])

\* get has returned one of two live records.
C10_Witness ==
    /\ req.op = "get" /\ resp.code = 200
    /\ Cardinality(DOMAIN hist) = 2
    /\ Stored(resp.body[1]) = hist[req.id]

(***************************************************************************)
(* C9  What a load can see                                                 *)
(***************************************************************************)
\* C9 as stated: with handlers running concurrently, every load returns the
\* complete collection of some earlier save, or the initial collection.
C9_LoadSeesCompleteSave ==
    \A t \in Threads :
        thr[t].pc = "loaded" => (thr[t].obs.ok /\ thr[t].obs.data \in ghost.saved)

\* C9 as amended: as long as no operation has started before the one before it
\* had finished, every load returns the complete collection of the latest save,
\* or the initial collection when nothing was saved.
C9_LoadSeesLatestSaveWhenSequential ==
    \A t \in Threads :
        (thr[t].pc = "loaded" /\ ~ghost.overlap)
            => (thr[t].obs.ok /\ thr[t].obs.data = ghost.last)

\* Operations ran one after another, one of them saved a record, and the load of
\* a later delete returned it.
C9_Witness ==
    \E t \in Threads :
        /\ thr[t].pc = "loaded" /\ ~ghost.overlap
        /\ thr[t].op = "delete"
        /\ ghost.last = <<"P001">>
        /\ thr[t].obs.data = ghost.last

====
